---- MODULE Spec2Model ----
(***************************************************************************)
(* ChatBGD: the Cloudflare Worker of src/index.ts (static assets plus the  *)
(* /api/chat proxy to the upstream AI service).                            *)
(*                                                                         *)
(* Spec follows the worker, ClientSpec the page of static/script.js, for   *)
(* which the worker is the function from a request and an upstream outcome *)
(* to a response, and RenderSpec one call of the page's renderMarkdown.    *)
(*                                                                         *)
(* Requests share no state (the worker keeps nothing between them), so a   *)
(* behaviour follows one inbound request, drawn from Requests, from its    *)
(* arrival to its response.  A handler runs from the arrival to its first  *)
(* suspension, the upstream call, and from the upstream outcome on.        *)
(*                                                                         *)
(* Conventions.  A JavaScript value is a record tagged by "type".  A       *)
(* string is [type, id, len]: id names its content and len is its .length  *)
(* (UTF-16 code units, the "characters" of the 4000 limit).  A path is the *)
(* sequence of its characters, so that endsWith is computed.  An upstream  *)
(* outcome is a thrown fetch or a complete response (status and body).     *)
(***************************************************************************)
EXTENDS Integers, Sequences, FiniteSets, TLC

(***************************************************************************)
(* Bounds of the model and constants of the program                        *)
(***************************************************************************)
\* longest message tried is MaxMessageLength + MaxOver characters
MaxOver == 2
\* longest upstream output array tried
MaxOutput == 2
\* index.ts:178  message.length > 4000
MaxMessageLength == 4000
\* the messages one page tries to send: the API calls it starts and the
\* 'too long' errors it shows
MaxSends == 2

(***************************************************************************)
(* JavaScript values                                                       *)
(***************************************************************************)
Undefined == [type |-> "undefined"]
Null == [type |-> "null"]
Bool(b) == [type |-> "boolean", b |-> b]
Num(n) == [type |-> "number", n |-> n]
Str(id, len) == [type |-> "string", id |-> id, len |-> len]
Arr(items) == [type |-> "array", items |-> items]
Obj(fields) == [type |-> "object", fields |-> fields]
EmptyObj == [type |-> "object", fields |-> <<>>]

\* ToBoolean, as used by !x, x && y and if (x)
Truthy(v) ==
    CASE v.type \in {"undefined", "null"} -> FALSE
      [] v.type = "boolean" -> v.b
      [] v.type = "number" -> v.n # 0
      [] v.type = "string" -> v.len > 0
      [] OTHER -> TRUE

\* typeof v
TypeOf(v) ==
    CASE v.type \in {"null", "array", "object"} -> "object"
      [] OTHER -> v.type

\* Array.isArray(v)
IsArray(v) == v.type = "array"

\* reading a property of v throws a TypeError
Nullish(v) == v.type \in {"undefined", "null"}

\* v.f for a v that is not nullish: own data properties of a JSON value
Get(v, f) ==
    IF v.type = "object" /\ f \in DOMAIN v.fields THEN v.fields[f] ELSE Undefined

\* the outcome of an expression that threw
Thrown == [type |-> "thrown"]

\* the sequences over S of length at most n
SeqsUpTo(S, n) == UNION {[1..k -> S] : k \in 0..n}

(***************************************************************************)
(* Paths and the embedded static assets                                    *)
(***************************************************************************)
PathRoot == <<"/">>
PathIndexHtml == <<"/", "i", "n", "d", "e", "x", ".", "h", "t", "m", "l">>
PathStylesCss == <<"/", "s", "t", "y", "l", "e", "s", ".", "c", "s", "s">>
PathScriptJs == <<"/", "s", "c", "r", "i", "p", "t", ".", "j", "s">>
PathDataJson == <<"/", "d", "a", "t", "a", ".", "j", "s", "o", "n">>
PathLogoPng == <<"/", "l", "o", "g", "o", ".", "p", "n", "g">>
PathMissingCss == <<"/", "x", ".", "c", "s", "s">>
PathMissingJs == <<"/", "x", ".", "j", "s">>
PathNoExt == <<"/", "a", "b", "o", "u", "t">>
PathDebug == <<"/", "d", "e", "b", "u", "g">>
PathHealthcheck == <<"/", "h", "e", "a", "l", "t", "h", "c", "h", "e", "c", "k">>
PathApiChat == <<"/", "a", "p", "i", "/", "c", "h", "a", "t">>

Paths ==
    {PathRoot, PathIndexHtml, PathStylesCss, PathScriptJs, PathDataJson,
     PathLogoPng, PathMissingCss, PathMissingJs, PathNoExt, PathDebug,
     PathHealthcheck, PathApiChat}

Methods == {"GET", "POST", "OPTIONS"}

\* path.endsWith(suffix)
EndsWith(path, suffix) ==
    /\ Len(path) >= Len(suffix)
    /\ SubSeq(path, Len(path) - Len(suffix) + 1, Len(path)) = suffix

ExtHtml == <<".", "h", "t", "m", "l">>
ExtCss == <<".", "c", "s", "s">>
ExtJs == <<".", "j", "s">>
ExtJson == <<".", "j", "s", "o", "n">>

\* the asset tables a build can embed (lib/static is generated from
\* src/static): a table is a map from paths to file contents
HtmlPage == Str("<!DOCTYPE html>...", 18)
CssFile == Str("body { margin: 0 }", 18)
JsFile == Str("class ChatBGD {}", 16)
JsonFile == Str("{}", 2)
PngFile == Str("PNG", 3)
EmptyFile == Str("", 0)

AssetsFull ==
    (PathIndexHtml :> HtmlPage) @@ (PathStylesCss :> CssFile)
      @@ (PathScriptJs :> JsFile) @@ (PathDataJson :> JsonFile)
      @@ (PathLogoPng :> PngFile)
AssetsEmptyLogo ==
    (PathIndexHtml :> HtmlPage) @@ (PathStylesCss :> CssFile)
      @@ (PathScriptJs :> JsFile) @@ (PathLogoPng :> EmptyFile)
AssetsNoIndex == (PathStylesCss :> CssFile) @@ (PathScriptJs :> JsFile)

AssetTables == {AssetsFull, AssetsEmptyLogo, AssetsNoIndex}

\* staticAssets[path] of the table t: undefined for a path it does not hold
Lookup(t, path) == IF path \in DOMAIN t THEN t[path] ELSE Undefined

\* a content-type inference without the .css branch
getStaticAsset_NoCss(t, p) ==
    LET path == IF p = PathRoot \/ p = <<>> THEN PathIndexHtml ELSE p
        asset == Lookup(t, path)
        contentType ==
            IF EndsWith(path, ExtHtml) THEN "text/html; charset=UTF-8"
            ELSE IF EndsWith(path, ExtJs) THEN "application/javascript; charset=UTF-8"
            ELSE IF EndsWith(path, ExtJson) THEN "application/json; charset=UTF-8"
            ELSE "text/plain"
    IN  IF ~Truthy(asset) THEN Null
        ELSE [type |-> "asset", content |-> asset, contentType |-> contentType]
\* index.ts:378-405
getStaticAsset(t, p) ==
    LET path == IF p = PathRoot \/ p = <<>> THEN PathIndexHtml ELSE p
        asset == Lookup(t, path)
        contentType ==
            IF EndsWith(path, ExtHtml) THEN "text/html; charset=UTF-8"
            ELSE IF EndsWith(path, ExtCss) THEN "text/css; charset=UTF-8"
            ELSE IF EndsWith(path, ExtJs) THEN "application/javascript; charset=UTF-8"
            ELSE IF EndsWith(path, ExtJson) THEN "application/json; charset=UTF-8"
            ELSE "text/plain"
    IN  IF ~Truthy(asset) THEN Null
        ELSE [type |-> "asset", content |-> asset, contentType |-> contentType]

(***************************************************************************)
(* Requests, upstream outcomes and responses                               *)
(***************************************************************************)
NoBody == [kind |-> "none"]
InvalidJson == [kind |-> "invalid"]
Json(v) == [kind |-> "json", value |-> v]
Text(s) == [kind |-> "text", text |-> s]

\* the object with the fields of f that are not undefined: what an object
\* literal holds once it has gone through JSON.stringify
ObjectOf(f) == Obj([k \in {x \in DOMAIN f : f[x].type # "undefined"} |-> f[k]])

\* a message of n characters
Msg(n) == Str("aaa...", n)

MessageValues ==
    {Undefined, Null, Num(0), Num(5), Bool(TRUE), Bool(FALSE), Str("", 0),
     Arr(<<>>), EmptyObj}
      \cup {Msg(n) : n \in {1, MaxMessageLength - 1}}
      \cup {Msg(n) : n \in MaxMessageLength..(MaxMessageLength + MaxOver)}

SystemPrompt == Str("Be brief.", 9)

\* the bodies a POST /api/chat can carry
ChatBodies ==
    {InvalidJson}
      \cup {Json(v) : v \in {Null, Num(5), Bool(TRUE), Str("hi", 2), Arr(<<>>)}}
      \cup {Json(ObjectOf([message |-> m, systemPrompt |-> Undefined])) :
              m \in MessageValues}
      \cup {Json(ObjectOf([message |-> m, systemPrompt |-> SystemPrompt])) :
              m \in {Undefined, Msg(1), Msg(MaxMessageLength + 1)}}
      \cup {Json(ObjectOf([message |-> Msg(1), input |-> Str("Other", 5)]))}

Requests ==
    {[method |-> m, path |-> p, body |-> NoBody] :
        m \in Methods, p \in Paths \ {PathApiChat}}
      \cup {[method |-> m, path |-> PathApiChat, body |-> NoBody] :
              m \in Methods \ {"POST"}}
      \cup {[method |-> "POST", path |-> PathApiChat, body |-> b] : b \in ChatBodies}

\* the headers of an inbound request, as Object.fromEntries gives them
RequestHeaders == Obj(("content-type" :> Str("application/json", 16)))

\* console.log(label, value)
Entry(label, value) == [label |-> label, value |-> value]

\* response header sets
JsonHeaders ==
    ("Content-Type" :> "application/json") @@ ("Access-Control-Allow-Origin" :> "*")
CorsHeaders ==
    ("Access-Control-Allow-Origin" :> "*")
      @@ ("Access-Control-Allow-Methods" :> "GET, POST, OPTIONS")
      @@ ("Access-Control-Allow-Headers" :> "Content-Type")
      @@ ("Access-Control-Max-Age" :> "86400")
AssetHeaders(contentType, cacheControl) ==
    ("Content-Type" :> contentType) @@ ("Cache-Control" :> cacheControl)
      @@ ("Access-Control-Allow-Origin" :> "*")
\* new Response(string, {status}) with no headers: the runtime's default type
PlainHeaders == ("Content-Type" :> "text/plain;charset=UTF-8")

\* new Response(JSON.stringify(fields), {status, headers: JSON + CORS})
JsonResponse(status, fields) ==
    [status |-> status, headers |-> JsonHeaders, body |-> Json(ObjectOf(fields))]

\* new Response(JSON.stringify({ error: text }), {status, ...})
ErrorResponse(status, text) == JsonResponse(status, [error |-> text])

Timestamp == Str("2026-01-01T00:00:00.000Z", 24)
Hostname == Str("chat.emilycogsdill.com", 22)

(***************************************************************************)
(* The upstream AI service: what a call to env.AI_WORKER.fetch can yield   *)
(***************************************************************************)
FetchThrows == [kind |-> "throw"]
Reply(status, body) == [kind |-> "response", status |-> status, body |-> body]

\* Response.ok
Ok(status) == status >= 200 /\ status <= 299

SuccessStatuses == {200, 201}
FailureStatuses == {301, 400, 401, 404, 429, 500, 502, 503, 599}

\* texts an upstream body can carry
Hello == Str("Hello", 5)
Other == Str("Other", 5)
Think == Str("think", 5)
Deep == Str("deep", 4)

OutputText(t) == ObjectOf([type |-> Str("output_text", 11), text |-> t])
ReasoningText(t) == ObjectOf([type |-> Str("reasoning_text", 14), text |-> t])
RoleAssistant == Str("assistant", 9)
RoleUser == Str("user", 4)
Message(role, content) ==
    ObjectOf([type |-> Str("message", 7), role |-> role, content |-> content])
Reasoning(content) == ObjectOf([type |-> Str("reasoning", 9), content |-> content])

\* the content of an output item: missing, not an array, or an array
Contents ==
    {Undefined, Hello}
      \cup {Arr(c) : c \in
              {<<>>, <<Null>>, <<OutputText(Hello)>>, <<OutputText(Undefined)>>,
               <<OutputText(Str("", 0))>>, <<OutputText(Num(42))>>,
               <<OutputText(EmptyObj)>>, <<ReasoningText(Think)>>,
               <<OutputText(Hello), OutputText(Other)>>,
               <<ReasoningText(Think), OutputText(Hello)>>,
               <<OutputText(Hello), ReasoningText(Think)>>,
               <<OutputText(Hello), ReasoningText(Num(7))>>,
               <<OutputText(Hello), Null>>}}

ReasoningContents ==
    {Undefined}
      \cup {Arr(c) : c \in
              {<<ReasoningText(Deep)>>, <<ReasoningText(Str("", 0))>>,
               <<OutputText(Other), ReasoningText(Deep)>>}}

OutputItems ==
    {Null, Message(RoleUser, Arr(<<OutputText(Other)>>))}
      \cup {Message(RoleAssistant, c) : c \in Contents}
      \cup {Reasoning(c) : c \in ReasoningContents}

\* upstream bodies with an output array, with and without a top-level reply
OutputBodies ==
    {ObjectOf([output |-> Arr(o), response |-> r]) :
        o \in SeqsUpTo(OutputItems, MaxOutput), r \in {Undefined, Other}}

\* upstream bodies without an output array
FlatBodies ==
    {ObjectOf([output |-> o, response |-> r, text |-> t, message |-> m,
               reasoning |-> g]) :
        o \in {Undefined, Hello},
        r \in {Undefined, Str("", 0), Hello, Num(42), Arr(<<Hello>>)},
        t \in {Undefined, Str("T", 1), EmptyObj},
        m \in {Undefined, Str("M", 1), Num(7)},
        g \in {Undefined, Str("", 0), Str("because", 7), Num(42), EmptyObj}}

AiValues ==
    OutputBodies \cup FlatBodies
      \cup {Null, Str("plain", 5), Str("", 0), Num(0), Bool(TRUE), Arr(<<Hello>>)}

UpstreamOutcomes ==
    {FetchThrows}
      \cup {Reply(s, Text(Str("upstream error", 14))) : s \in FailureStatuses}
      \cup {Reply(s, InvalidJson) : s \in SuccessStatuses}
      \cup {Reply(200, Json(v)) : v \in AiValues}

\* what the healthcheck's call can yield: it reads the body as text only
HealthOutcomes ==
    {FetchThrows}
      \cup {Reply(s, Text(Str("{}", 2))) : s \in SuccessStatuses \cup FailureStatuses}

(***************************************************************************)
(* handleChatRequest, after the upstream call (index.ts:226-372)           *)
(***************************************************************************)
NoResponseReceived == Str("No response received", 20)

\* index.ts:276-278  item.type === 'message' && item.role === 'assistant'
IsAssistantMessage(item) ==
    Get(item, "type") = Str("message", 7) /\ Get(item, "role") = RoleAssistant
\* index.ts:285
IsOutputText(item) == Get(item, "type") = Str("output_text", 11)
\* index.ts:294, 308
IsReasoningText(item) == Get(item, "type") = Str("reasoning_text", 14)
\* index.ts:304
IsReasoning(item) == Get(item, "type") = Str("reasoning", 9)

\* the callbacks handed to find
Matches(item, what) ==
    CASE what = "assistant message" -> IsAssistantMessage(item)
      [] what = "output_text" -> IsOutputText(item)
      [] what = "reasoning_text" -> IsReasoningText(item)
      [] what = "reasoning" -> IsReasoning(item)

\* items.find(item => ...), where the callback reads item.type: the first
\* match, undefined when there is none, and a throw when a nullish item
\* comes before the first match
Find(items, what) ==
    LET hits == {i \in 1..Len(items) : ~Nullish(items[i]) /\ Matches(items[i], what)}
        bad == {i \in 1..Len(items) : Nullish(items[i])}
        first(S) == IF S = {} THEN Len(items) + 1
                    ELSE CHOOSE i \in S : \A j \in S : i <= j
    IN  IF first(bad) < first(hits) THEN Thrown
        ELSE IF hits = {} THEN Undefined
        ELSE items[first(hits)]

\* found && found.text: the text of a find's result when both are truthy
TextOf(found) ==
    IF found.type # "undefined" /\ Truthy(Get(found, "text"))
    THEN Get(found, "text") ELSE Undefined

\* JSON.stringify(v, null, 2) of the reasoning values the upstream sends
JsonStringify(v) ==
    CASE v = Num(42) -> Str("42", 2)
      [] v = EmptyObj -> Str("{}", 2)

\* an output branch in which the assistant message's reasoning comes first
ExtractOutput_InnerFirst(items) ==
    LET assistantMessage == Find(items, "assistant message")
        content == IF assistantMessage.type \in {"thrown", "undefined"}
                   THEN Undefined ELSE Get(assistantMessage, "content")
        hasContent == Truthy(content) /\ IsArray(content)
        textContent == IF hasContent THEN Find(content.items, "output_text")
                       ELSE Undefined
        innerReasoning == IF hasContent /\ textContent.type # "thrown"
                          THEN Find(content.items, "reasoning_text")
                          ELSE Undefined
        reasoningObject == Find(items, "reasoning")
        objContent == IF reasoningObject.type \in {"thrown", "undefined"}
                      THEN Undefined ELSE Get(reasoningObject, "content")
        objReasoning == IF Truthy(objContent) /\ IsArray(objContent)
                        THEN Find(objContent.items, "reasoning_text")
                        ELSE Undefined
        thrown == \E x \in {assistantMessage, textContent, innerReasoning,
                            reasoningObject, objReasoning} : x.type = "thrown"
    IN  IF thrown THEN Thrown
        ELSE [type |-> "extracted",
              responseText |->
                  IF TextOf(textContent).type # "undefined"
                  THEN TextOf(textContent) ELSE NoResponseReceived,
              reasoningText |->
                  IF TextOf(innerReasoning).type # "undefined"
                  THEN TextOf(innerReasoning)
                  ELSE IF TextOf(objReasoning).type # "undefined"
                  THEN TextOf(objReasoning) ELSE Null]

\* index.ts:272-315: the branch for a body with an output array; the result
\* is Thrown or the pair (responseText, reasoningText)
ExtractOutput(items) ==
    LET assistantMessage == Find(items, "assistant message")
        content == IF assistantMessage.type \in {"thrown", "undefined"}
                   THEN Undefined ELSE Get(assistantMessage, "content")
        hasContent == Truthy(content) /\ IsArray(content)
        textContent == IF hasContent THEN Find(content.items, "output_text")
                       ELSE Undefined
        innerReasoning == IF hasContent /\ textContent.type # "thrown"
                          THEN Find(content.items, "reasoning_text")
                          ELSE Undefined
        reasoningObject == Find(items, "reasoning")
        objContent == IF reasoningObject.type \in {"thrown", "undefined"}
                      THEN Undefined ELSE Get(reasoningObject, "content")
        objReasoning == IF Truthy(objContent) /\ IsArray(objContent)
                        THEN Find(objContent.items, "reasoning_text")
                        ELSE Undefined
        thrown == \E x \in {assistantMessage, textContent, innerReasoning,
                            reasoningObject, objReasoning} : x.type = "thrown"
    IN  IF thrown THEN Thrown
        ELSE [type |-> "extracted",
              responseText |->
                  IF TextOf(textContent).type # "undefined"
                  THEN TextOf(textContent) ELSE NoResponseReceived,
              reasoningText |->
                  IF TextOf(objReasoning).type # "undefined"
                  THEN TextOf(objReasoning)
                  ELSE IF TextOf(innerReasoning).type # "undefined"
                  THEN TextOf(innerReasoning) ELSE Null]

\* a flat branch that tries the text field before the response field
ExtractFlat_TextFirst(aiData) ==
    [type |-> "extracted",
     responseText |->
         IF Truthy(Get(aiData, "text")) THEN Get(aiData, "text")
         ELSE IF Truthy(Get(aiData, "response")) THEN Get(aiData, "response")
         ELSE IF Truthy(Get(aiData, "message")) THEN Get(aiData, "message")
         ELSE IF TypeOf(aiData) = "string" THEN aiData
         ELSE NoResponseReceived,
     reasoningText |->
         IF Truthy(Get(aiData, "reasoning"))
         THEN IF TypeOf(Get(aiData, "reasoning")) = "string"
              THEN Get(aiData, "reasoning")
              ELSE JsonStringify(Get(aiData, "reasoning"))
         ELSE Null]
\* index.ts:316-338: the branch for a body without an output array
ExtractFlat(aiData) ==
    [type |-> "extracted",
     responseText |->
         IF Truthy(Get(aiData, "response")) THEN Get(aiData, "response")
         ELSE IF Truthy(Get(aiData, "text")) THEN Get(aiData, "text")
         ELSE IF Truthy(Get(aiData, "message")) THEN Get(aiData, "message")
         ELSE IF TypeOf(aiData) = "string" THEN aiData
         ELSE NoResponseReceived,
     reasoningText |->
         IF Truthy(Get(aiData, "reasoning"))
         THEN IF TypeOf(Get(aiData, "reasoning")) = "string"
              THEN Get(aiData, "reasoning")
              ELSE JsonStringify(Get(aiData, "reasoning"))
         ELSE Null]

\* an extraction that falls back to the top-level fields when the output
\* array gave no text
Extract_FallBack(aiData) ==
    IF Nullish(aiData) THEN Thrown
    ELSE IF Truthy(Get(aiData, "output")) /\ IsArray(Get(aiData, "output"))
    THEN LET ex == ExtractOutput(Get(aiData, "output").items)
         IN  IF ex.type = "extracted" /\ ex.responseText = NoResponseReceived
             THEN [ex EXCEPT !.responseText = ExtractFlat(aiData).responseText]
             ELSE ex
    ELSE ExtractFlat(aiData)
\* index.ts:268-338: aiData.output of a null body throws
Extract(aiData) ==
    IF Nullish(aiData) THEN Thrown
    ELSE IF Truthy(Get(aiData, "output")) /\ IsArray(Get(aiData, "output"))
    THEN ExtractOutput(Get(aiData, "output").items)
    ELSE ExtractFlat(aiData)

\* index.ts:357-372: the catch of handleChatRequest
CatchResponse == ErrorResponse(500, Str("An unexpected error occurred", 28))

\* an error text with no branch for the statuses of 500 and more
ErrorMessageFor_NoServerBranch(status) ==
    IF status = 429 THEN Str("Too many requests. Please wait a moment.", 40)
    ELSE Str("AI service temporarily unavailable", 34)
\* index.ts:240-246
ErrorMessageFor(status) ==
    IF status = 429 THEN Str("Too many requests. Please wait a moment.", 40)
    ELSE IF status >= 500 THEN Str("AI service error. Please try again later.", 41)
    ELSE Str("AI service temporarily unavailable", 34)

\* an error status that forgets the rate limit
ErrorStatusFor_Always500(status) == 500
\* an error status that forwards the upstream's
ErrorStatusFor_Forwarded(status) == status
\* index.ts:253
ErrorStatusFor(status) == IF status = 429 THEN 429 ELSE 500

\* a handler whose catch does not cover what follows the upstream call:
\* the exception leaves handleChatRequest
ChatResponseFor_NoCatch(outcome) ==
    IF outcome.kind = "throw" THEN [kind |-> "exception"]
    ELSE IF ~Ok(outcome.status)
    THEN ErrorResponse(ErrorStatusFor(outcome.status), ErrorMessageFor(outcome.status))
    ELSE IF outcome.body.kind # "json" THEN [kind |-> "exception"]
    ELSE LET ex == Extract(outcome.body.value)
         IN  IF ex.type = "thrown" THEN [kind |-> "exception"]
             ELSE JsonResponse(200, [response |-> ex.responseText,
                                     reasoning |-> ex.reasoningText])

\* index.ts:224-372: from the outcome of the upstream call to the response
ChatResponseFor(outcome) ==
    IF outcome.kind = "throw" THEN CatchResponse
    ELSE IF ~Ok(outcome.status)
    THEN ErrorResponse(ErrorStatusFor(outcome.status), ErrorMessageFor(outcome.status))
    ELSE IF outcome.body.kind # "json" THEN CatchResponse
    ELSE LET ex == Extract(outcome.body.value)
         IN  IF ex.type = "thrown" THEN CatchResponse
             ELSE JsonResponse(200, [response |-> ex.responseText,
                                     reasoning |-> ex.reasoningText])

(***************************************************************************)
(* State                                                                   *)
(***************************************************************************)
VARIABLES
    staticAssets,    \* the embedded asset table (lib/static)
    pc,              \* "idle", "chat" or "healthcheck" (awaiting the upstream), "done"
    request,         \* the request being handled
    aiRequest,       \* the body of the upstream request made for it, if any
    aiCalls,         \* the number of upstream calls made for it
    aiOutcome,       \* the outcome of the upstream call, once settled
    response,        \* the response returned for it
    console          \* what the worker has written with console.log/error

workerVars ==
    <<staticAssets, pc, request, aiRequest, aiCalls, aiOutcome, response, console>>

\* the page (static/script.js, class ChatBGD)
VARIABLES
    inputValue,      \* messageInput.value
    charCount,       \* the character counter: its number and whether it is red
    dom,             \* the message nodes appended to the messages container
    loadingShown,    \* the loading indicator has the class 'show'
    sendDisabled,    \* sendButton.disabled
    calls,           \* the API calls started, in order, each pending or settled
    lastEvent        \* the last keydown event handled and what the handler did

clientVars ==
    <<inputValue, charCount, dom, loadingShown, sendDisabled, calls, lastEvent>>

\* one call of renderMarkdown (static/script.js:236-284)
VARIABLES
    markdown,        \* its argument text, a sequence of characters
    html             \* the string it returns, <<>> until it has returned

renderVars == <<markdown, html>>

vars == <<workerVars, clientVars, renderVars>>

None == [kind |-> "none"]

\* a textarea value: pre and post count the white space around its core,
\* which starts and ends with other characters (or is empty, with no post)
Input(pre, core, post) == [pre |-> pre, core |-> core, post |-> post]
EmptyInput == Input(0, Str("", 0), 0)

\* script.js:1-9, 287-290: the page once loaded
ClientInit ==
    /\ inputValue = EmptyInput
    /\ charCount = [count |-> 0, red |-> FALSE]
    /\ dom = <<>>
    /\ loadingShown = FALSE
    /\ sendDisabled = FALSE
    /\ calls = <<>>
    /\ lastEvent = None

\* index.ts:13-14: the worker with no request in hand
WorkerInit ==
    /\ staticAssets \in AssetTables
    /\ pc = "idle"
    /\ request = None
    /\ aiRequest = None
    /\ aiCalls = 0
    /\ aiOutcome = None
    /\ response = None
    /\ console = {}

Init ==
    /\ ClientInit
    /\ WorkerInit
    /\ markdown = <<>>
    /\ html = <<>>

\* a routing that matches the healthcheck by its path alone
Route_HealthcheckAnyMethod(req) ==
    IF req.path = PathDebug /\ req.method = "GET" THEN "debug"
    ELSE IF req.path = PathHealthcheck THEN "healthcheck"
    ELSE IF req.method = "OPTIONS" THEN "options"
    ELSE IF req.path = PathApiChat /\ req.method = "POST" THEN "chat"
    ELSE "static"
\* index.ts:15-137: the branch of fetch that handles a request
Route(req) ==
    IF req.path = PathDebug /\ req.method = "GET" THEN "debug"
    ELSE IF req.path = PathHealthcheck /\ req.method = "GET" THEN "healthcheck"
    ELSE IF req.method = "OPTIONS" THEN "options"
    ELSE IF req.path = PathApiChat /\ req.method = "POST" THEN "chat"
    ELSE "static"

\* a request arrives at an idle worker and is answered with resp, with no
\* upstream call
Answer(req, resp) ==
    /\ request' = req
    /\ response' = resp
    /\ pc' = "done"
    /\ aiRequest' = None
    /\ aiCalls' = 0
    /\ aiOutcome' = None
    /\ UNCHANGED <<staticAssets, clientVars, renderVars>>

\* a request arrives and its handler suspends at env.AI_WORKER.fetch(body)
CallUpstream(req, at, body) ==
    /\ request' = req
    /\ response' = None
    /\ pc' = at
    /\ aiRequest' = Json(body)
    /\ aiCalls' = 1
    /\ aiOutcome' = None
    /\ UNCHANGED <<staticAssets, clientVars, renderVars>>

\* a handler that calls the upstream a second time when the first call threw
Settle_Retry(outcome, resp) ==
    /\ aiOutcome' = outcome
    /\ response' = resp
    /\ pc' = "done"
    /\ aiCalls' = IF outcome.kind = "throw" THEN aiCalls + 1 ELSE aiCalls
    /\ UNCHANGED <<staticAssets, request, aiRequest, clientVars, renderVars>>
\* the upstream call settles with outcome and the handler returns resp
Settle(outcome, resp) ==
    /\ aiOutcome' = outcome
    /\ response' = resp
    /\ pc' = "done"
    /\ UNCHANGED <<staticAssets, request, aiRequest, aiCalls, clientVars, renderVars>>

\* index.ts:19-30
FetchDebug ==
    /\ pc = "idle"
    /\ \E req \in Requests :
        /\ Route(req) = "debug"
        /\ Answer(req, JsonResponse(200,
               [domain |-> Hostname, allEnvKeys |-> Arr(<<Str("AI_WORKER", 9)>>),
                timestamp |-> Timestamp]))
        /\ UNCHANGED console

\* index.ts:33-48
FetchHealthcheck ==
    /\ pc = "idle"
    /\ \E req \in Requests :
        /\ Route(req) = "healthcheck"
        /\ CallUpstream(req, "healthcheck",
                        ObjectOf([input |-> Str("healthcheck test", 16)]))
        /\ UNCHANGED console

\* index.ts:48-86
HealthcheckResponseFor(outcome) ==
    IF outcome.kind = "throw"
    THEN JsonResponse(500,
             [aiServiceStatus |-> Str("UNREACHABLE", 11),
              error |-> Str("fetch failed", 12),
              timestamp |-> Timestamp,
              backendCanReachAI |-> Bool(FALSE)])
    ELSE JsonResponse(200,
             [aiServiceStatus |-> IF Ok(outcome.status) THEN Str("HEALTHY", 7)
                                  ELSE Str("ERROR", 5),
              aiServiceStatusCode |-> Num(outcome.status),
              aiResponseBody |-> outcome.body.text,
              timestamp |-> Timestamp,
              backendCanReachAI |-> Bool(TRUE)])

\* index.ts:50-57, 73: what the healthcheck writes to the console
HealthcheckLog(outcome) ==
    IF outcome.kind = "throw"
    THEN {Entry("Healthcheck: Failed to reach AI service:", Str("fetch failed", 12))}
    ELSE {Entry("Healthcheck: AI service response:", Num(outcome.status)),
          Entry("Healthcheck: AI response body:", outcome.body.text)}

HealthcheckSettles ==
    /\ pc = "healthcheck"
    /\ \E outcome \in HealthOutcomes :
        /\ Settle(outcome, HealthcheckResponseFor(outcome))
        /\ console' = console \cup HealthcheckLog(outcome)

\* index.ts:90-100
FetchOptions ==
    /\ pc = "idle"
    /\ \E req \in Requests :
        /\ Route(req) = "options"
        /\ Answer(req, [status |-> 204, headers |-> CorsHeaders, body |-> NoBody])
        /\ UNCHANGED console

\* index.ts:108-132.  The catch of lines 133-136 has nothing to catch: the
\* lookups of a table of strings and the Response constructor do not throw
StaticResponseFor(t, path) ==
    LET asset == getStaticAsset(t, path)
        htmlAsset == Lookup(t, PathIndexHtml)
    IN  IF asset.type # "null"
        THEN [status |-> 200,
              headers |-> AssetHeaders(asset.contentType, "public, max-age=86400"),
              body |-> Text(asset.content)]
        ELSE IF Truthy(htmlAsset)
        THEN [status |-> 200,
              headers |-> AssetHeaders("text/html; charset=UTF-8",
                                       "public, max-age=3600"),
              body |-> Text(htmlAsset)]
        ELSE [status |-> 404, headers |-> PlainHeaders,
              body |-> Text(Str("Not Found", 9))]

FetchStatic ==
    /\ pc = "idle"
    /\ \E req \in Requests :
        /\ Route(req) = "static"
        /\ Answer(req, StaticResponseFor(staticAssets, req.path))
        /\ UNCHANGED console

\* a validation that forgets the typeof test
InvalidMessage_NoTypeof(message) == ~Truthy(message)
\* index.ts:164  !message || typeof message !== 'string'
InvalidMessage(message) == ~Truthy(message) \/ TypeOf(message) # "string"

\* a length check that is off by one
TooLong_OffByOne(message) ==
    message.type = "string" /\ message.len > MaxMessageLength + 1
\* index.ts:178  message.length > 4000 (the message is a string here; the
\* length of a value that has none is undefined, which exceeds nothing)
TooLong(message) == message.type = "string" /\ message.len > MaxMessageLength

\* index.ts:157-190: the outcome of parsing and validating the body: a
\* response, or Undefined when the message is accepted.  request.json() throws
\* on a body that is not JSON and the destructuring of a null body throws
ValidationResponseFor(body) ==
    IF body.kind # "json" \/ Nullish(body.value) THEN CatchResponse
    ELSE LET message == Get(body.value, "message")
         IN  IF InvalidMessage(message)
             THEN ErrorResponse(400, Str("Invalid request: message is required", 36))
             ELSE IF TooLong(message)
             THEN ErrorResponse(400,
                      Str("Message too long. Maximum 4000 characters.", 42))
             ELSE Undefined

\* an upstream body that forwards the system prompt too
aiRequestBody_WithSystemPrompt(body) ==
    ObjectOf([input |-> Get(body.value, "message"),
              systemPrompt |-> Get(body.value, "systemPrompt")])

\* index.ts:194-196
aiRequestBody(body) == ObjectOf([input |-> Get(body.value, "message")])

\* index.ts:153-205, 358-360: what handleChatRequest writes to the console
\* up to the upstream call
ChatRequestLog(body) ==
    {Entry("Backend: Reading request headers:", RequestHeaders)}
      \cup (IF body.kind = "json"
            THEN {Entry("Backend: Parsed request body:", body.value)}
            ELSE {Entry("Backend: Error message:", Str("Unexpected token", 16))})
      \cup (IF body.kind = "json" /\ Nullish(body.value)
            THEN {Entry("Backend: Error message:", Str("Cannot destructure", 18))}
            ELSE {})
      \cup (IF body.kind = "json" /\ ~Nullish(body.value)
            THEN {Entry("Backend: Extracted message:", Get(body.value, "message"))}
            ELSE {})
      \cup (IF "status" \in DOMAIN ValidationResponseFor(body) THEN {}
            ELSE {Entry("Backend: AI request body JSON:", aiRequestBody(body))})

\* index.ts:143-224: handleChatRequest up to the upstream call
handleChatRequest ==
    /\ pc = "idle"
    /\ \E req \in Requests :
        /\ Route(req) = "chat"
        /\ LET rejected == ValidationResponseFor(req.body)
           IN  IF "status" \in DOMAIN rejected
               THEN Answer(req, rejected)
               ELSE CallUpstream(req, "chat", aiRequestBody(req.body))
        /\ console' = console \cup ChatRequestLog(req.body)

\* index.ts:226-360: what handleChatRequest writes to the console from the
\* upstream outcome on
ChatResponseLog(outcome) ==
    IF outcome.kind = "throw"
    THEN {Entry("Backend: Error message:", Str("fetch failed", 12))}
    ELSE {Entry("Backend: AI service response received:", Num(outcome.status))}
           \cup
         (IF ~Ok(outcome.status)
          THEN {Entry("Backend: AI error response body:", outcome.body.text),
                Entry("Backend: Returning error to frontend:",
                      ErrorMessageFor(outcome.status))}
          ELSE IF outcome.body.kind # "json"
          THEN {Entry("Backend: Error message:", Str("Unexpected token", 16))}
          ELSE {Entry("Backend: AI response data:", outcome.body.value)}
                 \cup
               (LET ex == Extract(outcome.body.value)
                IN  IF ex.type = "thrown"
                    THEN {Entry("Backend: Error message:",
                                Str("Cannot read properties of null", 30))}
                    ELSE {Entry("Backend: Final response text to send:",
                                ex.responseText),
                          Entry("Backend: Final reasoning text to send:",
                                ex.reasoningText),
                          Entry("Backend: Final response object:",
                                ObjectOf([response |-> ex.responseText,
                                          reasoning |-> ex.reasoningText]))}))

\* index.ts:224-372: handleChatRequest from the upstream outcome on
ChatSettles ==
    /\ pc = "chat"
    /\ \E outcome \in UpstreamOutcomes :
        /\ Settle(outcome, ChatResponseFor(outcome))
        /\ console' = console \cup ChatResponseLog(outcome)

Next ==
    \/ FetchDebug
    \/ FetchHealthcheck
    \/ HealthcheckSettles
    \/ FetchOptions
    \/ FetchStatic
    \/ handleChatRequest
    \/ ChatSettles

Spec == Init /\ [][Next]_vars

(***************************************************************************)
(* The page (static/script.js:1-290, class ChatBGD) talking to the worker  *)
(***************************************************************************)
\* String.prototype.trim and .length of a textarea value
Trim(v) == v.core
RawLength(v) == v.pre + v.core.len + v.post

\* what the user can have in the textarea
InputValues ==
    {EmptyInput, Input(2, Str("", 0), 0), Input(1, Msg(2), 1),
     Input(0, Msg(MaxMessageLength), 1),
     Input(0, Msg(MaxMessageLength + 1), 0)}

\* script.js:44-52: the counter shows the untrimmed length, red above 4000
handleMessageInput(v) ==
    [count |-> RawLength(v), red |-> RawLength(v) > MaxMessageLength]

\* script.js:150-189: the node addMessage appends.  An assistant node gets
\* innerHTML = renderMarkdown(content), which throws on a content that is
\* not a string; the node keeps the content as markdown, the rendering
\* itself being renderMarkdown below.  Any other node gets
\* textContent = content.
addMessage(type, content, reasoning) ==
    IF type = "assistant"
    THEN IF content.type # "string" THEN Thrown
         ELSE [type |-> type, markdown |-> content,
               reasoningButton |-> Truthy(reasoning)]
    ELSE [type |-> type, textContent |-> content]

\* script.js:191-193
showError(message) == addMessage("error", message, Null)

\* script.js:195-203
setLoading(loading) ==
    /\ loadingShown' = loading
    /\ sendDisabled' = loading

TooLongText == Str("Message too long. Maximum 4000 characters.", 42)
TooLongShown == Len(SelectSeq(dom, LAMBDA n : n = showError(TooLongText)))

\* script.js:97-118: the request callAPI sends to /api/chat
callAPI(message) ==
    [body |-> Json(ObjectOf([message |-> message])), state |-> "pending",
     outcome |-> None]

\* script.js:67-84 without the length check of lines 73-76
sendMessage_Unchecked ==
    LET message == Trim(inputValue)
    IN  IF ~Truthy(message)
        THEN UNCHANGED <<inputValue, charCount, dom, loadingShown,
                         sendDisabled, calls>>
        ELSE /\ Len(calls) + TooLongShown < MaxSends
             /\ inputValue' = EmptyInput
             /\ charCount' = handleMessageInput(EmptyInput)
             /\ dom' = Append(dom, addMessage("user", message, Null))
             /\ setLoading(TRUE)
             /\ calls' = Append(calls, callAPI(message))

\* script.js:67-84: sendMessage up to the await of callAPI
sendMessage ==
    LET message == Trim(inputValue)
    IN  IF ~Truthy(message)
        THEN UNCHANGED <<inputValue, charCount, dom, loadingShown,
                         sendDisabled, calls>>
        ELSE IF message.len > MaxMessageLength
        THEN /\ Len(calls) + TooLongShown < MaxSends
             /\ dom' = Append(dom, showError(TooLongText))
             /\ UNCHANGED <<inputValue, charCount, loadingShown,
                            sendDisabled, calls>>
        ELSE /\ Len(calls) + TooLongShown < MaxSends
             /\ inputValue' = EmptyInput
             /\ charCount' = handleMessageInput(EmptyInput)
             /\ dom' = Append(dom, addMessage("user", message, Null))
             /\ setLoading(TRUE)
             /\ calls' = Append(calls, callAPI(message))

\* new Error(message), thrown
Throw(message) == [type |-> "thrown", message |-> message]

\* fetch itself rejecting: the request never got an answer
NetworkFailure == [kind |-> "network failure"]

\* what the upstream can answer while a page waits
PageUpstreamOutcomes ==
    {FetchThrows,
     Reply(429, Text(Str("upstream error", 14))),
     Reply(200, Json(ObjectOf([response |-> Hello, reasoning |-> Think]))),
     Reply(200, Json(ObjectOf([response |-> Num(42)])))}

\* index.ts:143-373: the worker's answers to POST /api/chat with this body
WorkerResponses(body) ==
    LET rejected == ValidationResponseFor(body)
    IN  IF "status" \in DOMAIN rejected THEN {rejected}
        ELSE {ChatResponseFor(o) : o \in PageUpstreamOutcomes}

\* how a call can end
CallOutcomes(body) == {NetworkFailure} \cup WorkerResponses(body)

\* `HTTP ${response.status}: ${response.statusText}`, the status text of a
\* Response built without one being empty
HttpErrorText(status) == Str("HTTP " \o ToString(status) \o ": ", 10)

\* script.js:120-147: what callAPI returns or throws once fetch has settled
callAPIResult(outcome) ==
    IF outcome = NetworkFailure THEN Throw(Str("Failed to fetch", 15))
    ELSE IF ~Ok(outcome.status)
    THEN IF outcome.status = 429 THEN Throw(Str("Rate limit exceeded", 19))
         ELSE IF outcome.status >= 500
         THEN Throw(Str("Service temporarily unavailable", 31))
         ELSE Throw(HttpErrorText(outcome.status))
    ELSE IF outcome.body.kind # "json" THEN Throw(Str("Unexpected token", 16))
    ELSE outcome.body.value

\* String.prototype.includes, for the messages the page's errors carry and
\* the four texts getErrorMessage looks for
Includes(s, sub) ==
    sub \in (CASE s.id = "Failed to fetch" -> {"fetch", "Failed to fetch"}
               [] s.id = "Rate limit exceeded" -> {"Rate limit"}
               [] s.id = "Service temporarily unavailable" ->
                      {"Service temporarily unavailable"}
               [] OTHER -> {})

\* script.js:211-221 without the branch of lines 214-215
getErrorMessage_NoRateLimit(error) ==
    IF Includes(error.message, "fetch") \/ Includes(error.message, "Failed to fetch")
    THEN Str("Connection failed. Check your internet connection.", 50)
    ELSE IF Includes(error.message, "Service temporarily unavailable")
    THEN Str("AI service temporarily unavailable. Please try again later.", 59)
    ELSE IF Truthy(error.message) THEN error.message
    ELSE Str("An unexpected error occurred.", 29)

\* script.js:211-221
getErrorMessage(error) ==
    IF Includes(error.message, "fetch") \/ Includes(error.message, "Failed to fetch")
    THEN Str("Connection failed. Check your internet connection.", 50)
    ELSE IF Includes(error.message, "Rate limit")
    THEN Str("Too many requests. Please wait a moment.", 40)
    ELSE IF Includes(error.message, "Service temporarily unavailable")
    THEN Str("AI service temporarily unavailable. Please try again later.", 59)
    ELSE IF Truthy(error.message) THEN error.message
    ELSE Str("An unexpected error occurred.", 29)

\* script.js:86-92: the node sendMessage appends once callAPI has settled
ReplyNode(outcome) ==
    LET result == callAPIResult(outcome)
    IN  IF result.type = "thrown" THEN showError(getErrorMessage(result))
        ELSE IF Truthy(Get(result, "error"))
        THEN showError(Get(result, "error"))
        ELSE LET node == addMessage("assistant", Get(result, "response"),
                                    Get(result, "reasoning"))
             IN  IF node.type = "thrown"
                 THEN showError(getErrorMessage(
                          Throw(Str("text.replace is not a function", 30))))
                 ELSE node

\* the input event: the user edits the textarea
TypeInput ==
    /\ \E v \in InputValues \ {inputValue} :
           /\ inputValue' = v
           /\ charCount' = handleMessageInput(v)
    /\ UNCHANGED <<dom, loadingShown, sendDisabled, calls, lastEvent, workerVars, renderVars>>

KeyEvent(key, shiftKey) ==
    [key |-> key, shiftKey |-> shiftKey, defaultPrevented |-> FALSE,
     sendMessageCalled |-> FALSE]

KeyEvents == {KeyEvent("Enter", FALSE), KeyEvent("Enter", TRUE), KeyEvent("a", FALSE)}

\* script.js:60-65, with Enter and Shift taken alone
handleKeyDown_AnyEnter(e) ==
    IF e.key = "Enter"
    THEN /\ lastEvent' = [e EXCEPT !.defaultPrevented = TRUE,
                                   !.sendMessageCalled = TRUE]
         /\ sendMessage
    ELSE /\ lastEvent' = e
         /\ UNCHANGED <<inputValue, charCount, dom, loadingShown,
                        sendDisabled, calls>>

\* script.js:60-65
handleKeyDown(e) ==
    IF e.key = "Enter" /\ ~e.shiftKey
    THEN /\ lastEvent' = [e EXCEPT !.defaultPrevented = TRUE,
                                   !.sendMessageCalled = TRUE]
         /\ sendMessage
    ELSE /\ lastEvent' = e
         /\ UNCHANGED <<inputValue, charCount, dom, loadingShown,
                        sendDisabled, calls>>

\* script.js:25: a keydown in the textarea
KeyDown ==
    /\ \E e \in KeyEvents : handleKeyDown(e)
    /\ UNCHANGED <<workerVars, renderVars>>

\* script.js:26: a click on the send button, which a disabled button ignores
ClickSend ==
    /\ ~sendDisabled
    /\ sendMessage
    /\ UNCHANGED <<lastEvent, workerVars, renderVars>>

\* script.js:86-94, 120-147: a pending call settles and sendMessage runs on
\* through its try, catch and finally
CallSettles ==
    /\ \E i \in 1..Len(calls) :
           /\ calls[i].state = "pending"
           /\ \E outcome \in CallOutcomes(calls[i].body) :
                  /\ calls' = [calls EXCEPT ![i] = [@ EXCEPT !.state = "settled",
                                                            !.outcome = outcome]]
                  /\ dom' = Append(dom, ReplyNode(outcome))
    /\ setLoading(FALSE)
    /\ UNCHANGED <<inputValue, charCount, lastEvent, workerVars, renderVars>>

ClientNext ==
    \/ TypeInput
    \/ KeyDown
    \/ ClickSend
    \/ CallSettles

\* the page once loaded, no request being followed on the worker's side
PageInit ==
    /\ Init
    /\ staticAssets = AssetsFull

ClientSpec == PageInit /\ [][ClientNext]_vars

(***************************************************************************)
(* renderMarkdown (static/script.js:236-284)                               *)
(*                                                                         *)
(* A text is a sequence of characters, "javascript:" standing for the      *)
(* eleven characters of that scheme.  The string returned is a sequence of *)
(* pieces: Chr(c) is a character copied from the text, Lit(s) a string the *)
(* renderer wrote.  The texts are over RenderChars, which has none of the  *)
(* characters the emphasis, code, header, line break and list rules        *)
(* (lines 243-257, 262-267, 272-281) look for, so that on these texts      *)
(* those replacements change nothing; the escape, the link rule, the       *)
(* paragraph wrap and the empty-paragraph rule are computed.               *)
(***************************************************************************)
\* the texts have a link's text and target of at most so many characters,
\* and the texts without a link at most so many
MaxPart == 2
MaxPlain == 2

Quote == "\""
RenderChars == {"x", "<", ">", "[", "]", "(", ")", Quote, "javascript:"}

Chr(c) == [kind |-> "chr", s |-> c]
Lit(s) == [kind |-> "lit", s |-> s]

\* the sequences over S of length 1 to n
Parts(S, n) == UNION {[1..k -> S] : k \in 1..n}

\* the text [a](b)
LinkText(a, b) == <<"[">> \o a \o <<"]", "(">> \o b \o <<")">>

\* script.js:241: .replace(/</g, '&lt;').replace(/>/g, '&gt;')
EscapeHtml(s) ==
    [i \in 1..Len(s) |->
        IF s[i] = "<" THEN Lit("&lt;")
        ELSE IF s[i] = ">" THEN Lit("&gt;")
        ELSE Chr(s[i])]

\* the first index from `from` on at which h holds the piece p, 0 if none
IndexOf(h, p, from) ==
    LET at == {i \in from..Len(h) : h[i] = p}
    IN  IF at = {} THEN 0 ELSE CHOOSE i \in at : \A j \in at : i <= j

LinkOpen == Lit("<a href=\"")
LinkAttributes == Lit("\" target=\"_blank\" rel=\"noopener noreferrer\">")
LinkClose == Lit("</a>")

\* script.js:260: a match of /\[([^\]]+)\]\(([^)]+)\)/ starting at i, as the
\* indices of its "]" and its ")", or <<>> when there is none.  Neither
\* group can run past the first "]" or ")", so there is one way to match.
LinkAt(h, i) ==
    IF h[i] # Chr("[") THEN <<>>
    ELSE LET j == IndexOf(h, Chr("]"), i + 1)
         IN  IF j < i + 2 \/ j + 1 > Len(h) THEN <<>>
             ELSE IF h[j + 1] # Chr("(") THEN <<>>
             ELSE LET k == IndexOf(h, Chr(")"), j + 2)
                  IN  IF k < j + 3 THEN <<>> ELSE <<j, k>>

\* script.js:260: every match, from the left, replaced by
\* '<a href="$2" target="_blank" rel="noopener noreferrer">$1</a>'
RECURSIVE ReplaceLinks(_, _)
ReplaceLinks(h, i) ==
    IF i > Len(h) THEN <<>>
    ELSE LET at == LinkAt(h, i)
         IN  IF at = <<>> THEN <<h[i]>> \o ReplaceLinks(h, i + 1)
             ELSE <<LinkOpen>> \o SubSeq(h, at[1] + 2, at[2] - 1)
                    \o <<LinkAttributes>> \o SubSeq(h, i + 1, at[1] - 1)
                    \o <<LinkClose>> \o ReplaceLinks(h, at[2] + 1)

\* script.js:263-264, 270: '<p>' + html + '</p>', then every '<p></p>' removed
Paragraph(h) == IF h = <<>> THEN <<>> ELSE <<Lit("<p>")>> \o h \o <<Lit("</p>")>>

\* script.js:236-284
renderMarkdown(t) == Paragraph(ReplaceLinks(EscapeHtml(t), 1))

\* the reply texts rendered: short ones, and ones shaped as a link
RenderInit ==
    /\ ClientInit
    /\ WorkerInit
    /\ staticAssets = AssetsFull
    /\ \/ markdown \in SeqsUpTo(RenderChars, MaxPlain)
       \/ \E a \in Parts(RenderChars, MaxPart), b \in Parts(RenderChars, MaxPart) :
              markdown = LinkText(a, b)
    /\ html = <<>>

\* script.js:161: addMessage renders the reply text
Render ==
    /\ html = <<>>
    /\ html' = renderMarkdown(markdown)
    /\ UNCHANGED <<markdown, workerVars, clientVars>>

RenderNext == Render

RenderSpec == RenderInit /\ [][RenderNext]_vars

(***************************************************************************)
(* Properties                                                              *)
(***************************************************************************)
\* the request being handled is a POST /api/chat
IsChat == request # None /\ Route(request) = "chat"
\* it has been answered
Answered == pc = "done"
\* the message its body carries: undefined when the body is not JSON, is null
\* or has no message field
TheMessage ==
    IF request.body.kind = "json" /\ request.body.value.type = "object"
         /\ "message" \in DOMAIN request.body.value.fields
    THEN request.body.value.fields["message"]
    ELSE Undefined
\* the upstream answered the forwarded chat call with a status
UpstreamAnswered == IsChat /\ Answered /\ aiOutcome.kind = "response"
\* the response's body is JSON {error: text, ...}
HasJsonError ==
    /\ response.body.kind = "json"
    /\ response.body.value.type = "object"
    /\ "error" \in DOMAIN response.body.value.fields
ErrorText == response.body.value.fields["error"]

\* C1: a POST /api/chat whose message is a string of more than 4000
\* characters is answered 400 with no upstream call; a message of exactly
\* 4000 characters passes the length check and is forwarded
C1_OversizedRejected ==
    (IsChat /\ TheMessage.type = "string") =>
        /\ TheMessage.len > 4000 =>
              Answered /\ response.status = 400 /\ aiCalls = 0
        /\ TheMessage.len = 4000 =>
              aiCalls = 1 /\ aiRequest.value.fields["input"] = TheMessage
C1_Witness ==
    /\ IsChat /\ Answered
    /\ TheMessage.type = "string" /\ TheMessage.len = 4001
    /\ response.status = 400

\* C2: a POST /api/chat whose message is the empty string or not a string
\* (number, boolean, null, array, object) is answered 400
C2_EmptyOrNonStringRejected ==
    (IsChat /\ TheMessage.type # "undefined"
       /\ (TheMessage.type # "string" \/ TheMessage.len = 0)) =>
        Answered /\ response.status = 400 /\ aiCalls = 0
C2_Witness ==
    /\ IsChat /\ Answered
    /\ TheMessage = Num(5)
    /\ response.status = 400

\* C3: a POST /api/chat that carries no message is answered 400 whatever
\* its body is: an object without message, a JSON value that is not an
\* object, or a body that is not JSON
C3_NoMessageRejected400 ==
    (IsChat /\ TheMessage.type = "undefined") =>
        Answered /\ response.status = 400

\* C4: an upstream 429 yields 429 with the rate-limit message
C4_RateLimitForwarded ==
    (UpstreamAnswered /\ aiOutcome.status = 429) =>
        /\ response.status = 429
        /\ HasJsonError
        /\ ErrorText = Str("Too many requests. Please wait a moment.", 40)
C4_Witness ==
    UpstreamAnswered /\ aiOutcome.status = 429 /\ response.status = 429

\* C5 as stated: an upstream status of 500 or more yields 500 with the
\* default text 'AI service temporarily unavailable'
C5_ServerErrorDefaultText ==
    (UpstreamAnswered /\ aiOutcome.status >= 500) =>
        /\ response.status = 500
        /\ HasJsonError
        /\ ErrorText = Str("AI service temporarily unavailable", 34)
\* C5 as amended: an upstream status of 500 or more yields 500 with the text
\* 'AI service error. Please try again later.'
C5_ServerErrorText ==
    (UpstreamAnswered /\ aiOutcome.status >= 500) =>
        /\ response.status = 500
        /\ HasJsonError
        /\ ErrorText = Str("AI service error. Please try again later.", 41)
C5_Witness ==
    UpstreamAnswered /\ aiOutcome.status = 503 /\ response.status = 500

\* C6: a failure of a chat request that is neither a validation error nor an
\* upstream 429 yields 500: an upstream status outside 2xx other than 429, a
\* fetch that throws, a success body that is not JSON or is JSON null; and
\* whatever else keeps a forwarded request from a 200 yields 500 too
C6_OtherFailures500 ==
    (IsChat /\ Answered /\ aiCalls = 1) =>
        /\ aiOutcome.kind = "throw" => response.status = 500
        /\ (aiOutcome.kind = "response" /\ ~(aiOutcome.status \in 200..299)
              /\ aiOutcome.status # 429) => response.status = 500
        /\ (aiOutcome.kind = "response" /\ aiOutcome.status \in 200..299
              /\ (aiOutcome.body.kind # "json" \/ aiOutcome.body.value = Null))
              => response.status = 500
        /\ (response.status # 200
              /\ ~(aiOutcome.kind = "response" /\ aiOutcome.status = 429))
              => response.status = 500
C6_Witness ==
    UpstreamAnswered /\ aiOutcome.status = 404 /\ response.status = 500

ValidMessage ==
    /\ TheMessage.type = "string"
    /\ TheMessage.len >= 1
    /\ TheMessage.len <= 4000

\* C8: at most one upstream call per inbound request, never repeated; a
\* POST /api/chat makes exactly one when its message passed validation and
\* none when its body failed to parse or its message was rejected; the
\* routes other than chat and healthcheck make none
C8_SingleUpstreamCall ==
    /\ aiCalls <= 1
    /\ (IsChat /\ ValidMessage) => aiCalls = 1
    /\ (IsChat /\ ~ValidMessage) => aiCalls = 0
    /\ (request # None /\ Route(request) \in {"debug", "options", "static"})
          => aiCalls = 0
C8_Witness ==
    IsChat /\ Answered /\ aiOutcome.kind = "throw" /\ aiCalls = 1

\* C9: a 200 response of POST /api/chat has a string response field and a
\* reasoning field that is a string or absent (a reasoning of JSON null, a
\* field with no value, is read here as absent)
C9_ResponseIsString ==
    (IsChat /\ Answered /\ response.status = 200) =>
        LET fields == response.body.value.fields
        IN  /\ "response" \in DOMAIN fields
            /\ fields["response"].type = "string"
            /\ "reasoning" \in DOMAIN fields =>
                  fields["reasoning"].type \in {"string", "null"}

\* the static-asset branch answered the request with a page or a file
StaticServed ==
    request # None /\ Route(request) = "static" /\ Answered /\ response.status = 200
\* the asset table holds a file under the requested path
NamesAsset ==
    LET path == IF request.path = PathRoot THEN PathIndexHtml ELSE request.path
    IN  path \in DOMAIN staticAssets /\ staticAssets[path].len > 0
\* the extension of a path: what follows its last dot
Extension(path) ==
    LET dots == {i \in 1..Len(path) : path[i] = "."}
    IN  IF dots = {} THEN <<>>
        ELSE SubSeq(path, 1 + CHOOSE i \in dots : \A j \in dots : j <= i, Len(path))
\* the content type that corresponds to an extension
TypeOfExtension(ext) ==
    CASE ext = <<"h", "t", "m", "l">> -> "text/html; charset=UTF-8"
      [] ext = <<"c", "s", "s">> -> "text/css; charset=UTF-8"
      [] ext = <<"j", "s">> -> "application/javascript; charset=UTF-8"
      [] ext = <<"j", "s", "o", "n">> -> "application/json; charset=UTF-8"
      [] OTHER -> "text/plain"
KnownExtensions ==
    {<<"h", "t", "m", "l">>, <<"c", "s", "s">>, <<"j", "s">>, <<"j", "s", "o", "n">>}

\* C10 as stated: a request answered from the static branch gets the content
\* type of the extension of its path, also when the path names no asset
C10_TypeByExtension ==
    (StaticServed /\ Extension(request.path) \in KnownExtensions) =>
        response.headers["Content-Type"] = TypeOfExtension(Extension(request.path))
\* C10 as amended: a request answered with the asset stored under its path
\* ('/' standing for '/index.html') gets the content type of the path's
\* extension; a request whose path names no asset is answered with the main
\* page as text/html, whatever its extension
C10_TypeOfServedAsset ==
    StaticServed =>
        IF NamesAsset
        THEN LET path == IF request.path = PathRoot THEN PathIndexHtml
                         ELSE request.path
             IN  /\ response.body = Text(staticAssets[path])
                 /\ response.headers["Content-Type"] = TypeOfExtension(Extension(path))
        ELSE /\ response.body = Text(staticAssets[PathIndexHtml])
             /\ response.headers["Content-Type"] = "text/html; charset=UTF-8"
C10_Witness ==
    /\ StaticServed
    /\ request.path = PathStylesCss
    /\ response.body = Text(CssFile)
    /\ response.headers["Content-Type"] = "text/css; charset=UTF-8"

\* C11: an OPTIONS request, on any path, is answered 204 with no body and
\* the four fixed CORS headers, and causes no upstream call
C11_Preflight ==
    (request # None /\ request.method = "OPTIONS") =>
        /\ Answered
        /\ response.status = 204
        /\ response.body = [kind |-> "none"]
        /\ DOMAIN response.headers =
              {"Access-Control-Allow-Origin", "Access-Control-Allow-Methods",
               "Access-Control-Allow-Headers", "Access-Control-Max-Age"}
        /\ response.headers["Access-Control-Allow-Origin"] = "*"
        /\ response.headers["Access-Control-Allow-Methods"] = "GET, POST, OPTIONS"
        /\ response.headers["Access-Control-Allow-Headers"] = "Content-Type"
        /\ response.headers["Access-Control-Max-Age"] = "86400"
        /\ aiCalls = 0
C11_Witness ==
    /\ request # None /\ request.method = "OPTIONS"
    /\ request.path = PathHealthcheck
    /\ Answered /\ response.status = 204

\* the upstream answered the chat call with a success status and a JSON body
UpstreamSucceeded ==
    /\ UpstreamAnswered
    /\ aiOutcome.status \in 200..299
    /\ aiOutcome.body.kind = "json"
\* that body
AiData == aiOutcome.body.value
\* a field of a JSON value, undefined when it has none
Field(v, f) ==
    IF v.type = "object" /\ f \in DOMAIN v.fields THEN v.fields[f] ELSE Undefined
\* the body has an output array
HasOutputArray(v) == Field(v, "output").type = "array"
\* the reply text of a 200 response
ReplyText == response.body.value.fields["response"]
\* the least element of a non-empty set of numbers
Least(S) == CHOOSE i \in S : \A j \in S : i <= j
NoReply == Str("No response received", 20)

\* the reply C19 describes for a body without an output array
FlatReply(v) ==
    LET names == <<"response", "text", "message">>
        truthy == {i \in 1..3 : Truthy(Field(v, names[i]))}
    IN  IF truthy # {} THEN Field(v, names[Least(truthy)])
        ELSE IF v.type = "string" THEN v
        ELSE NoReply

\* C19: for a success body with no output array (and not null, which has no
\* fields to read), the answer is 200 and its reply text is the first truthy
\* of response, text, message; else the body itself when it is a string;
\* else 'No response received'
C19_FlatReply ==
    (UpstreamSucceeded /\ AiData # Null /\ ~HasOutputArray(AiData)) =>
        /\ response.status = 200
        /\ ReplyText = FlatReply(AiData)
C19_Witness ==
    /\ UpstreamSucceeded
    /\ AiData.type = "object"
    /\ Field(AiData, "response") = Str("", 0)
    /\ Field(AiData, "text") = Str("T", 1)
    /\ Field(AiData, "message") = Str("M", 1)
    /\ response.status = 200
    /\ ReplyText = Str("T", 1)

\* the reply C20 describes for an output array
OutputReply(items) ==
    LET msgs == {i \in 1..Len(items) :
                    /\ Field(items[i], "type") = Str("message", 7)
                    /\ Field(items[i], "role") = Str("assistant", 9)}
    IN  IF msgs = {} THEN NoReply
        ELSE LET content == Field(items[Least(msgs)], "content")
             IN  IF content.type # "array" THEN NoReply
                 ELSE LET texts == {i \in 1..Len(content.items) :
                                      Field(content.items[i], "type")
                                        = Str("output_text", 11)}
                      IN  IF texts = {} THEN NoReply
                          ELSE LET text == Field(content.items[Least(texts)], "text")
                               IN  IF Truthy(text) THEN text ELSE NoReply
\* no array the worker scans holds a null item
NoNullItems(items) ==
    \A i \in 1..Len(items) :
        /\ items[i] # Null
        /\ Field(items[i], "content").type = "array" =>
              \A j \in 1..Len(Field(items[i], "content").items) :
                  Field(items[i], "content").items[j] # Null

\* C20: for a success body with an output array, the reply text of the 200
\* answer is the text of the first output_text item of the first assistant
\* message, and 'No response received' when that message, its content array
\* or a non-empty text is missing, whatever the top-level fields and the
\* later items are; the answer is 200 unless an array holds a null item
C20_OutputReply ==
    (UpstreamSucceeded /\ HasOutputArray(AiData)) =>
        /\ response.status = 200 =>
              ReplyText = OutputReply(Field(AiData, "output").items)
        /\ NoNullItems(Field(AiData, "output").items) => response.status = 200
C20_Witness ==
    /\ UpstreamSucceeded
    /\ HasOutputArray(AiData)
    /\ Field(AiData, "response") = Other
    /\ Field(AiData, "output").items =
          <<Message(RoleAssistant, Arr(<<>>)),
            Message(RoleAssistant, Arr(<<OutputText(Hello)>>))>>
    /\ response.status = 200
    /\ ReplyText = NoReply

\* C17: while it handles a chat request, the worker never writes the content
\* of the user's message, the request headers or the AI reply to the console
C17_NothingSensitiveLogged ==
    IsChat =>
        \A e \in console :
            /\ e.value # RequestHeaders
            /\ TheMessage.type = "string" => e.value # TheMessage
            /\ UpstreamSucceeded => e.value # AiData
            /\ (Answered /\ response.status = 200) => e.value # ReplyText

(***************************************************************************)
(* Properties of the page                                                  *)
(***************************************************************************)
PlainEnter(e) == e.key = "Enter" /\ ~e.shiftKey

\* a textarea value sendMessage accepts
Sendable(v) == Trim(v).len >= 1 /\ Trim(v).len <= MaxMessageLength

\* C12: a keydown of Enter without Shift suppresses the default newline and
\* invokes sendMessage; a keydown of Enter with Shift, or of any other key,
\* does neither.
C12_EnterSends ==
    [][lastEvent' # lastEvent =>
          IF PlainEnter(lastEvent')
          THEN /\ lastEvent'.defaultPrevented
               /\ lastEvent'.sendMessageCalled
               /\ Sendable(inputValue) =>
                      calls' = Append(calls, callAPI(Trim(inputValue)))
          ELSE /\ ~lastEvent'.defaultPrevented
               /\ ~lastEvent'.sendMessageCalled
               /\ UNCHANGED <<inputValue, dom, calls, loadingShown, sendDisabled>>
      ]_vars

\* Enter alone was pressed on a message and its call has started
C12_Witness ==
    /\ lastEvent # None
    /\ PlainEnter(lastEvent)
    /\ lastEvent.defaultPrevented
    /\ Len(calls) = 1
    /\ calls[1].state = "pending"
    /\ dom = <<addMessage("user", Msg(2), Null)>>

Settled(i) == calls[i].state = "settled"
Delivered(i) == Settled(i) /\ calls[i].outcome # NetworkFailure
SentMessage(i) == Get(calls[i].body.value, "message")

\* C13: every message the page sends to /api/chat is a non-empty string of
\* at most 4000 characters, which the worker's validation accepts and never
\* answers with 400; and while the textarea, once trimmed, is empty or
\* longer than 4000 characters, no step starts a call.
C13_SentMessagesValid ==
    /\ [](\A i \in 1..Len(calls) :
             /\ SentMessage(i).type = "string"
             /\ SentMessage(i).len >= 1
             /\ SentMessage(i).len <= MaxMessageLength
             /\ ValidationResponseFor(calls[i].body) = Undefined
             /\ Delivered(i) => calls[i].outcome.status # 400)
    /\ [][~Sendable(inputValue) => Len(calls') = Len(calls)]_vars

\* a message of exactly 4000 characters, typed with a space after it, was
\* sent and answered with a reply
C13_Witness ==
    /\ Len(calls) = 1
    /\ SentMessage(1) = Msg(MaxMessageLength)
    /\ Delivered(1)
    /\ calls[1].outcome.status = 200
    /\ Len(dom) = 2
    /\ dom[2].type = "assistant"

\* the step in which call i settles with an answer of the worker
Answers(i) ==
    /\ calls[i].state = "pending"
    /\ calls'[i].state = "settled"
    /\ calls'[i].outcome # NetworkFailure

TooManyRequests == Str("Too many requests. Please wait a moment.", 40)

\* C14: whenever the worker answers a chat call of the page with status 429,
\* the page appends an error message with the text 'Too many requests.
\* Please wait a moment.'.
C14_RateLimitShown ==
    [][\A i \in 1..Len(calls) :
          (Answers(i) /\ calls'[i].outcome.status = 429) =>
              dom' = Append(dom, showError(TooManyRequests))
      ]_vars

\* a call was answered with 429 and the error text stands below the message
C14_Witness ==
    /\ Len(calls) = 1
    /\ Delivered(1)
    /\ calls[1].outcome.status = 429
    /\ dom = <<addMessage("user", SentMessage(1), Null), showError(TooManyRequests)>>

\* the body of the answer call i got is {error: text}
ErrorBody(outcome) ==
    /\ outcome.body.kind = "json"
    /\ Get(outcome.body.value, "error").type = "string"

\* C15: whenever the worker answers a chat call of the page with an error
\* body {error: text}, at any status, the page displays that text.
C15_ErrorTextShown ==
    [][\A i \in 1..Len(calls) :
          (Answers(i) /\ ErrorBody(calls'[i].outcome)) =>
              dom' = Append(dom, showError(Get(calls'[i].outcome.body.value, "error")))
      ]_vars

InFlight == \E i \in 1..Len(calls) : calls[i].state = "pending"

\* C16: in every reachable state of the page the loading indicator is shown
\* and the send button is disabled exactly when a chat API call is in
\* flight.
C16_LoadingWhileInFlight ==
    /\ loadingShown = InFlight
    /\ sendDisabled = InFlight

(***************************************************************************)
(* Properties of renderMarkdown                                            *)
(***************************************************************************)
\* where the href opened at p ends for the browser: at the next double
\* quote, whoever wrote it
HrefEnd(h, p) ==
    CHOOSE q \in (p + 1)..Len(h) :
        /\ h[q] \in {Chr(Quote), LinkAttributes}
        /\ \A r \in (p + 1)..(q - 1) : h[r] \notin {Chr(Quote), LinkAttributes}

\* C18: for every reply text the HTML renderMarkdown returns holds only the
\* tags and attributes the renderer writes: no character of the text opens
\* or closes a tag, no link's target ends its href with a double quote of
\* its own (what follows would be read as attributes), and no href starts
\* with the javascript: scheme.
C18_NoInjectedMarkup ==
    /\ \A p \in 1..Len(html) : html[p] \notin {Chr("<"), Chr(">")}
    /\ \A p \in 1..Len(html) :
          html[p] = LinkOpen =>
              /\ html[HrefEnd(html, p)] = LinkAttributes
              /\ html[p + 1] # Chr("javascript:")

(***************************************************************************)
(* Properties of the worker: reasoning, headers, statuses, the upstream    *)
(* request                                                                 *)
(***************************************************************************)
\* the reasoning of a 200 response
ReplyReasoning == response.body.value.fields["reasoning"]

IsOfType(v, t) == Field(v, "type") = Str(t, Len(t))

\* the text of the first reasoning_text item of a content, undefined when
\* the content is no array, has no such item or the item has no text
FirstReasoningText(content) ==
    IF content.type # "array" THEN Undefined
    ELSE LET at == {j \in 1..Len(content.items) :
                       IsOfType(content.items[j], "reasoning_text")}
         IN  IF at = {} THEN Undefined
             ELSE Field(content.items[Least(at)], "text")

\* the reasoning inside the first assistant message
InnerReasoning(items) ==
    LET msgs == {i \in 1..Len(items) :
                    /\ IsOfType(items[i], "message")
                    /\ Field(items[i], "role") = RoleAssistant}
    IN  IF msgs = {} THEN Undefined
        ELSE FirstReasoningText(Field(items[Least(msgs)], "content"))

\* the non-empty reasoning texts of the output items of type reasoning
SeparateReasonings(items) ==
    {t \in {FirstReasoningText(Field(items[i], "content")) :
               i \in {k \in 1..Len(items) : IsOfType(items[k], "reasoning")}} :
        Truthy(t)}

\* the output array without its reasoning: no item of type reasoning, no
\* reasoning_text item in a content
WithoutReasoning(items) ==
    LET Strip(item) ==
            IF Field(item, "content").type # "array" THEN item
            ELSE [item EXCEPT !.fields["content"] =
                     Arr(SelectSeq(@.items,
                                   LAMBDA c : ~IsOfType(c, "reasoning_text")))]
    IN  [i \in 1..Len(SelectSeq(items, LAMBDA x : ~IsOfType(x, "reasoning"))) |->
            Strip(SelectSeq(items, LAMBDA x : ~IsOfType(x, "reasoning"))[i])]

\* C21 as stated: for a success body with an output array the reasoning of
\* the 200 answer is the reasoning_text of an output item of type reasoning
\* whenever one with a non-empty text exists, else the one inside the
\* assistant message, else null; and the reply text is the one of the
\* output array without its reasoning.
C21_AnyReasoningItem ==
    (UpstreamSucceeded /\ HasOutputArray(AiData) /\ response.status = 200) =>
        LET items == Field(AiData, "output").items
        IN  /\ IF SeparateReasonings(items) # {}
               THEN ReplyReasoning \in SeparateReasonings(items)
               ELSE IF Truthy(InnerReasoning(items))
               THEN ReplyReasoning = InnerReasoning(items)
               ELSE ReplyReasoning = Null
            /\ ReplyText = OutputReply(WithoutReasoning(items))

\* the reasoning text of the first output item of type reasoning
FirstSeparateReasoning(items) ==
    LET at == {i \in 1..Len(items) : IsOfType(items[i], "reasoning")}
    IN  IF at = {} THEN Undefined
        ELSE FirstReasoningText(Field(items[Least(at)], "content"))

\* C21, amended: the reasoning of the 200 answer is the reasoning_text of
\* the first output item of type reasoning when that text is non-empty, else
\* the one inside the first assistant message, else null; and the reply
\* text is the one of the output array without its reasoning.
C21_FirstReasoningItem ==
    (UpstreamSucceeded /\ HasOutputArray(AiData) /\ response.status = 200) =>
        LET items == Field(AiData, "output").items
        IN  /\ IF Truthy(FirstSeparateReasoning(items))
               THEN ReplyReasoning = FirstSeparateReasoning(items)
               ELSE IF Truthy(InnerReasoning(items))
               THEN ReplyReasoning = InnerReasoning(items)
               ELSE ReplyReasoning = Null
            /\ ReplyText = OutputReply(WithoutReasoning(items))

\* an assistant message with its own reasoning, followed by a reasoning
\* item: the item's text is returned, with the message's reply
C21_Witness ==
    /\ UpstreamSucceeded
    /\ HasOutputArray(AiData)
    /\ Field(AiData, "output").items =
          <<Message(RoleAssistant, Arr(<<OutputText(Hello), ReasoningText(Think)>>)),
            Reasoning(Arr(<<ReasoningText(Deep)>>))>>
    /\ response.status = 200
    /\ ReplyReasoning = Deep
    /\ ReplyText = Hello

C23_AlwaysOneResponse ==
    /\ []((IsChat /\ Answered) =>
             /\ "status" \in DOMAIN response
             /\ response.status \in {200, 400, 429, 500}
             /\ response.status = 200 => UpstreamSucceeded)
    /\ [][(IsChat /\ Answered) => UNCHANGED response]_vars

\* the upstream answered 200 with the body null, reading its output field
\* threw and the catch answered 500
C23_Witness ==
    /\ IsChat
    /\ Answered
    /\ aiOutcome = Reply(200, Json(Null))
    /\ response = ErrorResponse(500, Str("An unexpected error occurred", 28))

\* the body is a JSON object
IsObjectBody(b) == b.kind = "json" /\ b.value.type = "object"
\* the message of such a body
MessageOf(b) == Field(b.value, "message")
\* the worker's answer to the body b when its upstream call, if it makes
\* one, has the outcome of the request in hand
AnswerTo(b) ==
    LET rejected == ValidationResponseFor(b)
    IN  IF "status" \in DOMAIN rejected THEN rejected
        ELSE IF aiOutcome = None THEN None
        ELSE ChatResponseFor(aiOutcome)

====
